---- MODULE Spec2Model ----
(***************************************************************************)
(* Model of the generic CRUD controller produced by createController       *)
(* (Controller.js, src/unnamed/part_000).  Each request is one invocation  *)
(* of a handler wrapped by asyncHandler; a handler suspends only at its    *)
(* `await`s, so every persistence-layer call takes effect in one atomic    *)
(* step and the steps of concurrent requests interleave.                   *)
(*                                                                         *)
(* The persistence layer (a Mongoose model) is outside the repository; it  *)
(* is modelled by what the calls made by the handlers do to a collection:  *)
(* `store`, a function from the identifiers of the stored records to the   *)
(* records.  Any persistence call may reject (connectivity, malformed      *)
(* identifier, validation by runValidators).                               *)
(***************************************************************************)
EXTENDS Integers, Sequences, FiniteSets, TLC

VARIABLES
    store,      \* the collection: [stored ids -> record]
    nextId,     \* the next identifier `new Model(..)` hands out
    ops,        \* the number of requests received so far
    query,      \* req.query of the list requests of the run
    op,         \* op[r]: the handler suspended in request slot r ("idle": slot free)
    pc,         \* pc[r]: the await it is suspended at
    arg,        \* arg[r]: req.params, req.query or the validation errors of the request
                \* (req.body is used at once)
    doc,        \* doc[r]: the handler's `doc` (<<>> when it holds none)
    pend,       \* pend[r]: getAll's persistence calls not yet settled
    total,      \* total[r]: getAll's `total`
    items,      \* items[r]: getAll's `items`
    last,       \* the exchange completed last: the request, what was sent on `res`,
                \* what was passed to `next`
    raced,      \* history: a write took effect between getAll r's two reads
    seen,       \* history: what happened to the record since toggleFlag r read it
    deleted,    \* history: identifiers remove has answered 200 for
    createdDoc, \* history: id -> data of create's 201, until the record is written
    tg          \* history: id -> toggles answered 200 since the last other write

vars == <<store, nextId, ops, query, op, pc, arg, doc, pend, total, items, last,
          raced, seen, deleted, createdDoc, tg>>

(***************************************************************************)
(* Bounds of the model                                                     *)
(***************************************************************************)
\* identifiers handed out in one run
MaxIds == 2
\* requests in flight at the same time
MaxReqs == 2
\* requests received in one run
MaxOps == 4

Ids == 1..MaxIds
Reqs == 1..MaxReqs

\* values of the additional field `name` a request body can carry
Names == {"A", "B"}
\* `page` query parameters a client sends (<<>>: parameter absent)
QueryPages == {<<>>, <<0>>, <<1>>, <<2>>}
\* `limit` query parameters a client sends (<<>>: parameter absent)
QueryLimits == {<<>>, <<-1>>, <<0>>, <<1>>, <<101>>}
\* `q` query parameters a client sends (<<>>: parameter absent)
QueryTerms == {<<>>, <<"A">>}

(***************************************************************************)
(* Program constants                                                       *)
(***************************************************************************)
DefaultPage == 1
DefaultLimit == 25
MaxLimit == 100
\* the schema default of `active` (the schema is supplied by the caller)
DefaultActive == FALSE

(***************************************************************************)
(* Pure helpers                                                            *)
(***************************************************************************)
Max(a, b) == IF a >= b THEN a ELSE b
Min(a, b) == IF a <= b THEN a ELSE b

\* parseInt(req.query.x || dflt, 10) for an absent or integer-valued parameter
\* (a present parameter is a non-empty string, hence truthy, also "0")
ParseIntOr(param, dflt) == IF param = <<>> THEN dflt ELSE param[1]

\* const page = Math.max(1, parseInt(req.query.page || '1', 10));
PageOf(q) == Max(1, ParseIntOr(q.page, DefaultPage))

\* const limit = Math.min(100, parseInt(req.query.limit || '25', 10));
LimitOf(q) == Min(MaxLimit, ParseIntOr(q.limit, DefaultLimit))

\* const skip = (page - 1) * limit;
SkipOf(q) == (PageOf(q) - 1) * LimitOf(q)

\* ceiling of a/b for b > 0
CeilDiv(a, b) == IF a % b = 0 THEN a \div b ELSE (a \div b) + 1

\* a Javascript number: an integer, or Infinity / NaN
JsInt(n) == [kind |-> "int", v |-> n]
JsInfinity == [kind |-> "Infinity", v |-> 0]
JsNaN == [kind |-> "NaN", v |-> 0]

\* Math.ceil(total / limit), for total >= 0 and any integer limit
\* (x/0 is Infinity, 0/0 is NaN; Math.ceil rounds towards +Infinity, and -0 = 0)
MathCeilDiv(t, l) ==
    IF l > 0 THEN JsInt(CeilDiv(t, l))
    ELSE IF l < 0 THEN JsInt(-(t \div (-l)))
    ELSE IF t = 0 THEN JsNaN ELSE JsInfinity

\* doc.active = !doc.active
Invert(b) == ~b

(***************************************************************************)
(* The persistence layer, as the handlers call it                          *)
(***************************************************************************)
\* the documents a filter selects: {} selects all, {$text: {$search: q}}
\* those whose indexed text (the field `name`) holds q
Matches(d, q) == q = <<>> \/ d.name = q[1]
Matching(q) == {i \in DOMAIN store : Matches(store[i], q)}

\* Model.countDocuments(filter)
CountDocuments(q) == Cardinality(Matching(q))

\* the identifiers of S in natural (insertion) order
RECURSIVE SortedIds(_)
SortedIds(S) ==
    IF S = {} THEN <<>>
    ELSE LET m == CHOOSE i \in S : \A j \in S : i <= j
         IN <<m>> \o SortedIds(S \ {m})

\* cursor.limit(l): 0 is "no limit", a negative limit is the limit -l
LimitWindow(l, n) == IF l = 0 THEN n ELSE IF l < 0 THEN Min(-l, n) ELSE Min(l, n)

\* Model.find(filter).skip(skip).limit(limit).lean(), for skip >= 0
Find(q, skip, limit) ==
    LET ids == SortedIds(Matching(q))
        rest == IF skip >= Len(ids) THEN <<>> ELSE SubSeq(ids, skip + 1, Len(ids))
        n == LimitWindow(limit, Len(rest))
    IN [k \in 1..n |-> store[rest[k]]]

\* new Model(payload): a fresh identifier, the payload's fields, schema defaults
NewModel(payload, id) ==
    [id |-> id,
     name |-> payload.name,
     active |-> IF "active" \in DOMAIN payload THEN payload.active ELSE DefaultActive]

\* findByIdAndUpdate(id, payload, {new: true}): the fields of payload are set
ApplyUpdate(d, payload) ==
    [f \in DOMAIN d |-> IF f \in DOMAIN payload THEN payload[f] ELSE d[f]]

\* a collection without the document id
Without(f, id) == [i \in DOMAIN f \ {id} |-> f[i]]

\* request bodies a client sends: create carries `name`, without `active` or with
\* it; update carries no field, or one of the two
CreatePayloads == {[name |-> "A"], [name |-> "B", active |-> TRUE]}
UpdatePayloads ==
    {<<>>} \cup {[name |-> n] : n \in Names} \cup {[active |-> a] : a \in BOOLEAN}

\* the queries a client sends, and the one a run of Spec lists with
Queries == [page : QueryPages, limit : QueryLimits, q : QueryTerms]
PlainQuery == [page |-> <<>>, limit |-> <<1>>, q |-> <<>>]

(***************************************************************************)
(* Responses and the asyncHandler wrapper                                  *)
(***************************************************************************)
NotFound == [status |-> 404, body |-> [success |-> FALSE, message |-> "Not found"]]
Ok(d) == [status |-> 200, body |-> [success |-> TRUE, data |-> d]]
Created(d) == [status |-> 201, body |-> [success |-> TRUE, data |-> d]]
Deleted == [status |-> 200, body |-> [success |-> TRUE, message |-> "Deleted"]]
Invalid(errs) == [status |-> 400, body |-> [errors |-> errs]]
Listed(q, t, its) ==
    [status |-> 200,
     body |-> [success |-> TRUE,
               meta |-> [page |-> PageOf(q), limit |-> LimitOf(q), total |-> t,
                         pages |-> MathCeilDiv(t, LimitOf(q))],
               data |-> its]]

\* asyncHandler without its .catch(next): a rejection goes nowhere
AsyncHandlerNoCatch(thrown) == <<>>

\* Promise.resolve(fn(req, res, next)).catch(next): the calls of `next`, given
\* what the handler's promise rejected with (<<>>: it resolved)
AsyncHandler(thrown) == thrown

\* a request arrives and is given the lowest free request slot
Arrives(r) ==
    /\ pc[r] = "idle"
    /\ \A r2 \in Reqs : r2 < r => pc[r2] # "idle"
    /\ ops < MaxOps
    /\ ops' = ops + 1
    /\ UNCHANGED query

\* the handler o of request a, suspended at `at` (or not yet suspended: "call"),
\* ends: it has sent `sent` on res, and its promise rejected with `thrown`
Exchange(r, o, a, at, sent, thrown) ==
    [seq |-> last.seq + 1, op |-> o, arg |-> a, at |-> at,
     resp |-> sent,
     thrown |-> thrown,
     nextCalls |-> AsyncHandler(thrown),
     raced |-> raced[r],
     seen |-> seen[r]]

\* the handler returns after res.status(..).json(response)
Resolved(r, o, a, at, response) ==
    last' = Exchange(r, o, a, at, <<response>>, <<>>)

\* a persistence call rejects, and with it the handler's promise
Rejected(r, o, a, at, err) ==
    last' = Exchange(r, o, a, at, <<>>, <<err>>)

\* request slot r holds handler o of request a, suspended at p
Suspend(r, o, a, p) ==
    /\ op' = [op EXCEPT ![r] = o]
    /\ arg' = [arg EXCEPT ![r] = a]
    /\ pc' = [pc EXCEPT ![r] = p]

\* the handler in slot r has ended: the slot and its frame are free
Release(r) ==
    /\ op' = [op EXCEPT ![r] = "idle"]
    /\ arg' = [arg EXCEPT ![r] = <<>>]
    /\ pc' = [pc EXCEPT ![r] = "idle"]
    /\ doc' = [doc EXCEPT ![r] = <<>>]
    /\ pend' = [pend EXCEPT ![r] = {}]
    /\ total' = [total EXCEPT ![r] = 0]
    /\ items' = [items EXCEPT ![r] = <<>>]
    /\ UNCHANGED query

(***************************************************************************)
(* History kept for the properties                                         *)
(***************************************************************************)
\* the toggleFlag requests that have read record id and not yet saved
Toggling(id) ==
    {r \in Reqs : op[r] = "toggleFlag" /\ pc[r] = "save" /\ doc[r][1].id = id}

\* what the requests in flight have seen once request `me` has ended; a write of
\* record id ("toggle": by a toggleFlag that saw no other write) has taken effect
SeenAfter(me, id, how) ==
    [r \in Reqs |->
        IF r = me THEN "clean"
        ELSE IF r \in Toggling(id)
        THEN IF how = "toggle" /\ seen[r] # "written" THEN "toggled" ELSE "written"
        ELSE seen[r]]
RacedAfter(me) ==
    [r \in Reqs |-> r # me /\ (raced[r] \/ (op[r] = "getAll" /\ pc[r] = "reads"))]

Baseline(d) == [orig |-> d, n |-> 0, lost |-> FALSE]

frames == <<op, pc, arg, doc, pend, total, items>>
history == <<raced, seen, deleted, createdDoc, tg>>

(***************************************************************************)
(* Initial state: an empty collection, no request in flight                *)
(***************************************************************************)
InitRest ==
    /\ store = <<>>
    /\ nextId = 1
    /\ ops = 0
    /\ op = [r \in Reqs |-> "idle"]
    /\ pc = [r \in Reqs |-> "idle"]
    /\ arg = [r \in Reqs |-> <<>>]
    /\ doc = [r \in Reqs |-> <<>>]
    /\ pend = [r \in Reqs |-> {}]
    /\ total = [r \in Reqs |-> 0]
    /\ items = [r \in Reqs |-> <<>>]
    /\ last = [seq |-> 0, op |-> "idle", arg |-> <<>>, at |-> "call", resp |-> <<>>,
               thrown |-> <<>>, nextCalls |-> <<>>, raced |-> FALSE, seen |-> "clean"]
    /\ raced = [r \in Reqs |-> FALSE]
    /\ seen = [r \in Reqs |-> "clean"]
    /\ deleted = {}
    /\ createdDoc = <<>>
    /\ tg = <<>>

Init ==
    /\ query = PlainQuery
    /\ InitRest

(***************************************************************************)
(* create                                                                  *)
(***************************************************************************)
\* validationResult(req) holds errors: 400, nothing is constructed or saved
CreateInvalid(r) ==
    \E errors \in {<<"invalid">>} :
        /\ Arrives(r)
        /\ Resolved(r, "create", [errors |-> errors], "call", Invalid(errors))
        /\ UNCHANGED <<store, nextId, frames, history>>

\* no validation errors: doc = new Model(payload), then the handler awaits doc.save()
CreateNew(r) ==
    \E payload \in CreatePayloads :
        /\ Arrives(r)
        /\ nextId <= MaxIds
        /\ Suspend(r, "create", [errors |-> <<>>], "save")
        /\ doc' = [doc EXCEPT ![r] = <<NewModel(payload, nextId)>>]
        /\ nextId' = nextId + 1
        /\ UNCHANGED <<store, pend, total, items, last, history>>

\* a save that persists nothing
SaveNewNothing(d) == store

\* a save that persists the schema default of `active` instead of the document's
SaveNewDefaultActive(d) == store @@ (d.id :> [d EXCEPT !.active = DefaultActive])

\* the collection after doc.save() of a new document
SaveNew(d) == store @@ (d.id :> d)

\* doc.save() settles and the handler answers 201 with the document
CreateSave(r) ==
    /\ op[r] = "create" /\ pc[r] = "save"
    /\ LET d == doc[r][1] IN
        /\ store' = SaveNew(d)
        /\ Resolved(r, "create", arg[r], "save", Created(d))
        /\ createdDoc' = createdDoc @@ (d.id :> d)
        /\ tg' = tg @@ (d.id :> Baseline(d))
    /\ raced' = RacedAfter(r)
    /\ Release(r)
    /\ UNCHANGED <<nextId, ops, seen, deleted>>

\* doc.save() of a new document rejects
CreateSaveFails(r) ==
    /\ op[r] = "create" /\ pc[r] = "save"
    /\ Rejected(r, "create", arg[r], "save", "save failed")
    /\ Release(r)
    /\ UNCHANGED <<store, nextId, ops, history>>

(***************************************************************************)
(* getAll                                                                  *)
(***************************************************************************)
\* what one of the two calls of Promise.all settles with, for query q
ReadTotal(r, q, which) == IF which = "count" THEN CountDocuments(q.q) ELSE total[r]
ReadItems(r, q, which) ==
    IF which = "find" THEN Find(q.q, SkipOf(q), LimitOf(q)) ELSE items[r]

\* the find is one the driver runs: it rejects a negative skip
Runs(q, which) == which = "find" => SkipOf(q) >= 0

\* the handler computes page, limit and skip, issues both calls, and the first
\* of them settles
GetAll(r) ==
    \E q \in {query}, which \in {"count", "find"} :
        /\ Arrives(r)
        /\ Runs(q, which)
        /\ Suspend(r, "getAll", q, "reads")
        /\ pend' = [pend EXCEPT ![r] = {"count", "find"} \ {which}]
        /\ total' = [total EXCEPT ![r] = ReadTotal(r, q, which)]
        /\ items' = [items EXCEPT ![r] = ReadItems(r, q, which)]
        /\ UNCHANGED <<store, nextId, doc, last, history>>

\* the first call to settle rejects: Promise.all rejects, whatever the other does
GetAllFails(r) ==
    \E q \in {query} :
        /\ Arrives(r)
        /\ Rejected(r, "getAll", q, "call", "read failed")
        /\ UNCHANGED <<store, nextId, frames, history>>

\* the second call settles and the handler answers with meta and data
GetAllSecond(r) ==
    /\ op[r] = "getAll" /\ pc[r] = "reads"
    /\ \E which \in pend[r] :
        /\ Runs(arg[r], which)
        /\ Resolved(r, "getAll", arg[r], "reads",
                    Listed(arg[r], ReadTotal(r, arg[r], which), ReadItems(r, arg[r], which)))
    /\ raced' = [raced EXCEPT ![r] = FALSE]
    /\ Release(r)
    /\ UNCHANGED <<store, nextId, ops, seen, deleted, createdDoc, tg>>

\* the second call rejects
GetAllSecondFails(r) ==
    /\ op[r] = "getAll" /\ pc[r] = "reads"
    /\ Rejected(r, "getAll", arg[r], "reads", "read failed")
    /\ raced' = [raced EXCEPT ![r] = FALSE]
    /\ Release(r)
    /\ UNCHANGED <<store, nextId, ops, seen, deleted, createdDoc, tg>>

(***************************************************************************)
(* getById                                                                 *)
(***************************************************************************)
\* Model.findById(id).lean() settles: null gives 404, a document 200
GetById(r) ==
    \E id \in Ids :
        /\ Arrives(r)
        /\ IF id \in DOMAIN store
           THEN Resolved(r, "getById", [id |-> id], "call", Ok(store[id]))
           ELSE Resolved(r, "getById", [id |-> id], "call", NotFound)
        /\ UNCHANGED <<store, nextId, frames, history>>

\* the first persistence call of getById, update, remove or toggleFlag rejects
FirstCallFails(r) ==
    \E o \in {"getById", "update", "remove", "toggleFlag"}, id \in Ids :
        /\ Arrives(r)
        /\ Rejected(r, o, [id |-> id], "call", "call failed")
        /\ UNCHANGED <<store, nextId, frames, history>>

(***************************************************************************)
(* update                                                                  *)
(***************************************************************************)
\* an update that upserts
UpdateStoreUpsert(id, payload) ==
    IF id \in DOMAIN store
    THEN [store EXCEPT ![id] = ApplyUpdate(@, payload)]
    ELSE store @@ (id :> ApplyUpdate([id |-> id, name |-> "A", active |-> DefaultActive],
                                     payload))

\* the collection after Model.findByIdAndUpdate(id, payload, {new: true, ..})
UpdateStore(id, payload) ==
    IF id \in DOMAIN store
    THEN [store EXCEPT ![id] = ApplyUpdate(@, payload)]
    ELSE store

\* findByIdAndUpdate settles: null gives 404, the updated document 200
Update(r) ==
    \E id \in Ids, payload \in UpdatePayloads :
        /\ Arrives(r)
        /\ store' = UpdateStore(id, payload)
        /\ IF id \in DOMAIN store
           THEN /\ Resolved(r, "update", [id |-> id], "call", Ok(store'[id]))
                /\ createdDoc' = Without(createdDoc, id)
                /\ tg' = [tg EXCEPT ![id] = Baseline(store'[id])]
                /\ seen' = SeenAfter(r, id, "write")
                /\ raced' = RacedAfter(r)
           ELSE /\ Resolved(r, "update", [id |-> id], "call", NotFound)
                /\ UNCHANGED <<raced, seen, createdDoc, tg>>
        /\ UNCHANGED <<nextId, frames, deleted>>

(***************************************************************************)
(* remove                                                                  *)
(***************************************************************************)
\* a delete that only finds
DeleteStoreKeeps(id) == store

\* the collection after Model.findByIdAndDelete(id)
DeleteStore(id) == Without(store, id)

\* findByIdAndDelete settles: null gives 404, the deleted document 200
Remove(r) ==
    \E id \in Ids :
        /\ Arrives(r)
        /\ store' = DeleteStore(id)
        /\ IF id \in DOMAIN store
           THEN /\ Resolved(r, "remove", [id |-> id], "call", Deleted)
                /\ deleted' = deleted \cup {id}
                /\ createdDoc' = Without(createdDoc, id)
                /\ tg' = Without(tg, id)
                /\ seen' = SeenAfter(r, id, "write")
                /\ raced' = RacedAfter(r)
           ELSE /\ Resolved(r, "remove", [id |-> id], "call", NotFound)
                /\ UNCHANGED <<raced, seen, deleted, createdDoc, tg>>
        /\ UNCHANGED <<nextId, frames>>

(***************************************************************************)
(* toggleFlag                                                              *)
(***************************************************************************)
\* Model.findById(id) settles with null: 404
ToggleMissing(r) ==
    \E id \in Ids :
        /\ Arrives(r)
        /\ id \notin DOMAIN store
        /\ Resolved(r, "toggleFlag", [id |-> id], "call", NotFound)
        /\ UNCHANGED <<store, nextId, frames, history>>

\* Model.findById(id) settles with a document: the handler inverts doc.active
\* and awaits doc.save()
ToggleFind(r) ==
    \E id \in Ids :
        /\ Arrives(r)
        /\ id \in DOMAIN store
        /\ Suspend(r, "toggleFlag", [id |-> id], "save")
        /\ doc' = [doc EXCEPT ![r] = <<store[id]>>]
        /\ UNCHANGED <<store, nextId, pend, total, items, last, history>>

\* doc.active = true instead of the inversion
ToggledOn(d) == [d EXCEPT !.active = TRUE]

\* the handler's document after doc.active = !doc.active
Toggled(d) == [d EXCEPT !.active = Invert(d.active)]

\* a save of the flag as it was loaded
SaveToggledStale(d) == [store EXCEPT ![d.id].active = d.active]

\* the collection after doc.save() of the loaded document d, of which only the
\* path `active` is modified
SaveToggled(d) == [store EXCEPT ![d.id].active = Toggled(d).active]

\* doc.save() settles and the handler answers 200 with its document
ToggleSave(r) ==
    /\ op[r] = "toggleFlag" /\ pc[r] = "save"
    /\ LET d == doc[r][1]
           id == d.id
           how == IF seen[r] = "written" THEN "write" ELSE "toggle"
       IN  /\ id \in DOMAIN store
           /\ store' = SaveToggled(d)
           /\ Resolved(r, "toggleFlag", arg[r], "save", Ok(Toggled(d)))
           /\ createdDoc' = Without(createdDoc, id)
           /\ tg' = [tg EXCEPT ![id] =
                        IF how = "write" THEN Baseline(store'[id])
                        ELSE [@ EXCEPT !.n = @ + 1,
                                       !.lost = @ \/ seen[r] = "toggled"]]
           /\ seen' = SeenAfter(r, id, how)
    /\ raced' = RacedAfter(r)
    /\ Release(r)
    /\ UNCHANGED <<nextId, ops, deleted>>

\* doc.save() of a document that is no longer stored: it updates nothing; a
\* Mongoose that does not reject then (ToggleSaveFails) settles, and the handler
\* answers 200 with its document
ToggleSaveGone(r) ==
    /\ op[r] = "toggleFlag" /\ pc[r] = "save"
    /\ doc[r][1].id \notin DOMAIN store
    /\ Resolved(r, "toggleFlag", arg[r], "save", Ok(Toggled(doc[r][1])))
    /\ seen' = [seen EXCEPT ![r] = "clean"]
    /\ Release(r)
    /\ UNCHANGED <<store, nextId, ops, raced, deleted, createdDoc, tg>>

\* doc.save() rejects (DocumentNotFoundError when the document is no longer stored)
ToggleSaveFails(r) ==
    /\ op[r] = "toggleFlag" /\ pc[r] = "save"
    /\ Rejected(r, "toggleFlag", arg[r], "save", "save failed")
    /\ seen' = [seen EXCEPT ![r] = "clean"]
    /\ Release(r)
    /\ UNCHANGED <<store, nextId, ops, raced, deleted, createdDoc, tg>>

Next ==
    \E r \in Reqs :
        \/ CreateInvalid(r)
        \/ CreateNew(r)
        \/ CreateSave(r)
        \/ CreateSaveFails(r)
        \/ GetAll(r)
        \/ GetAllFails(r)
        \/ GetAllSecond(r)
        \/ GetAllSecondFails(r)
        \/ GetById(r)
        \/ FirstCallFails(r)
        \/ Update(r)
        \/ Remove(r)
        \/ ToggleMissing(r)
        \/ ToggleFind(r)
        \/ ToggleSave(r)
        \/ ToggleSaveGone(r)
        \/ ToggleSaveFails(r)

Spec == Init /\ [][Next]_vars

\* the same handlers, the list requests of a run carrying any one query
ListInit ==
    /\ query \in Queries
    /\ InitRest

ListSpec == ListInit /\ [][Next]_vars

(***************************************************************************)
(* Properties                                                              *)
(***************************************************************************)
\* an exchange completes in this step
Completes == last'.seq # last.seq

\* what a completed exchange sent, when it sent one response
Answered(x) == Len(x.resp) = 1
Meta(x) == x.resp[1].body.meta
Data(x) == x.resp[1].body.data

\* the list requests in flight and the one completed last
ListQueries ==
    {arg[r] : r \in {r2 \in Reqs : op[r2] = "getAll"}}
        \cup (IF last.op = "getAll" THEN {last.arg} ELSE {})

ClampPage(p) == IF p < 1 THEN 1 ELSE p
ClampLimit(l) == IF l < 1 THEN 1 ELSE IF l > 100 THEN 100 ELSE l

\* C1: for every integer `page` and `limit`, getAll uses and reports in meta the
\* page max(1, page) and a limit in [1,100] (limit<1 gives 1, limit>100 gives
\* 100, a limit in range is kept), and the offset (page-1)*limit is never negative
C1_ClampedPaging ==
    /\ \A q \in ListQueries :
        /\ q.page # <<>> => PageOf(q) = ClampPage(q.page[1])
        /\ q.limit # <<>> => LimitOf(q) = ClampLimit(q.limit[1])
        /\ LimitOf(q) \in 1..100
        /\ SkipOf(q) >= 0
    /\ (last.op = "getAll" /\ Answered(last)) =>
        /\ last.arg.page # <<>> => Meta(last).page = ClampPage(last.arg.page[1])
        /\ last.arg.limit # <<>> => Meta(last).limit = ClampLimit(last.arg.limit[1])
        /\ Meta(last).limit \in 1..100

\* C2: getById of an identifier create has answered 201 for, the record not
\* written or deleted since, answers 200 with the data of the 201 response
C2_CreateThenGet ==
    [][(/\ Completes
        /\ last'.op = "getById"
        /\ last'.thrown = <<>>
        /\ last'.arg.id \in DOMAIN createdDoc)
       => last'.resp = <<[status |-> 200,
                          body |-> [success |-> TRUE,
                                    data |-> createdDoc[last'.arg.id]]]>>]_vars

C2_Witness ==
    /\ last.op = "getById"
    /\ Answered(last)
    /\ last.arg.id \in DOMAIN createdDoc
    /\ last.resp[1].status = 200
    /\ Data(last).id = last.arg.id
    /\ Data(last).active = TRUE

\* C3: once remove(id) has answered 200, every later getById, update, remove and
\* toggleFlag of id answers 404 "Not found", and id is never stored again
C3_DeletedStaysDeleted ==
    [][/\ \A id \in deleted : id \notin DOMAIN store'
       /\ \A r \in Reqs :
            (pc[r] = "idle" /\ op'[r] = "toggleFlag") => arg'[r].id \notin deleted
       /\ (/\ Completes
           /\ last'.op \in {"getById", "update", "remove", "toggleFlag"}
           /\ last'.at = "call"
           /\ last'.thrown = <<>>
           /\ last'.arg.id \in deleted)
          => last'.resp = <<[status |-> 404,
                             body |-> [success |-> FALSE, message |-> "Not found"]]>>]_vars

C3_Witness ==
    /\ last.op = "getById"
    /\ last.arg.id \in deleted
    /\ Answered(last)
    /\ last.resp[1].status = 404
    /\ DOMAIN store # {}

\* C4: a toggleFlag with no other write of the record between its read and its
\* save answers with the record as stored before, `active` inverted, and stores
\* exactly that; the second of two such calls in a row restores the original record
C4_ToggleTwice ==
    [][(/\ Completes
        /\ last'.op = "toggleFlag"
        /\ last'.at = "save"
        /\ last'.thrown = <<>>
        /\ last'.seen = "clean")
       => LET id == last'.arg.id
              inverted == [store[id] EXCEPT !.active = ~store[id].active]
          IN  /\ last'.resp = <<[status |-> 200,
                                 body |-> [success |-> TRUE, data |-> inverted]]>>
              /\ store' = [store EXCEPT ![id] = inverted]
              /\ (tg[id].n = 1 /\ ~tg[id].lost) =>
                    /\ store'[id] = tg[id].orig
                    /\ store[id].active = ~tg[id].orig.active]_vars

C4_Witness ==
    /\ last.op = "toggleFlag"
    /\ last.at = "save"
    /\ Answered(last)
    /\ last.seen = "clean"
    /\ last.arg.id \in DOMAIN tg
    /\ tg[last.arg.id].n = 2
    /\ ~tg[last.arg.id].lost
    /\ store[last.arg.id] = tg[last.arg.id].orig
    /\ Cardinality(DOMAIN store) = 2

\* C5: update, remove and toggleFlag of an identifier that resolves to no stored
\* record answer 404 "Not found" and leave the collection as it is
C5_ExistenceBeforeMutation ==
    [][/\ (/\ Completes
           /\ last'.op \in {"update", "remove", "toggleFlag"}
           /\ last'.at = "call"
           /\ last'.arg.id \notin DOMAIN store)
          => /\ store' = store
             /\ last'.thrown = <<>> =>
                    last'.resp = <<[status |-> 404,
                                    body |-> [success |-> FALSE,
                                              message |-> "Not found"]]>>
       /\ \A r \in Reqs :
            (pc[r] = "idle" /\ op'[r] = "toggleFlag") => arg'[r].id \in DOMAIN store]_vars

C5_Witness ==
    /\ last.op \in {"update", "toggleFlag"}
    /\ last.at = "call"
    /\ Answered(last)
    /\ last.resp[1].status = 404
    /\ last.arg.id \notin DOMAIN store
    /\ DOMAIN store # {}

\* C6: create with validation failures answers 400 {errors} and stores nothing;
\* without, it stores exactly one record under an identifier no record has or
\* had, and answers 201 with it no sooner than the save
C6_CreateValidates ==
    [][/\ (Completes /\ last'.op = "create" /\ last'.arg.errors # <<>>)
          => /\ last'.resp = <<[status |-> 400, body |-> [errors |-> last'.arg.errors]]>>
             /\ last'.thrown = <<>>
             /\ store' = store
       /\ (Completes /\ last'.op = "create" /\ last'.arg.errors = <<>>
                     /\ last'.thrown = <<>>)
          => /\ Answered(last')
             /\ last'.resp[1].status = 201
             /\ last'.resp[1].body.success
             /\ LET d == Data(last')
                IN  /\ d.id \notin DOMAIN store
                    /\ d.id \notin deleted
                    /\ store' = store @@ (d.id :> d)
       /\ \A r \in Reqs :
            (pc[r] = "idle" /\ op'[r] = "create")
                => (arg'[r].errors = <<>> /\ store' = store /\ ~Completes)]_vars

C6_Witness ==
    /\ last.op = "create"
    /\ Answered(last)
    /\ last.resp[1].status = 201
    /\ Data(last).id \in DOMAIN store
    /\ store[Data(last).id] = Data(last)
    /\ Cardinality(DOMAIN store) = 2

\* C7: an exchange in which a persistence call has rejected sent no response and
\* passed that error to next exactly once; any other sent exactly one response
\* and never called next
C7_ErrorsGoToNext ==
    last.seq > 0 =>
        IF last.thrown # <<>>
        THEN last.resp = <<>> /\ Len(last.nextCalls) = 1 /\ last.nextCalls = last.thrown
        ELSE last.nextCalls = <<>> /\ Len(last.resp) = 1

C7_Witness ==
    /\ last.op = "toggleFlag"
    /\ last.at = "save"
    /\ last.thrown # <<>>
    /\ last.resp = <<>>
    /\ Len(last.nextCalls) = 1

\* C8: in every getAll response meta.pages is a non-negative integer, the
\* ceiling of meta.total / meta.limit
C8_PagesIsCeiling ==
    (last.op = "getAll" /\ Answered(last)) =>
        LET m == Meta(last)
        IN  /\ m.pages.kind = "int"
            /\ m.pages.v >= 0
            /\ m.pages.v * m.limit >= m.total
            /\ (m.pages.v - 1) * m.limit < m.total

\* C9: a getAll response whose two reads no write came between holds
\* min(limit, max(0, total - skip)) records
C9_SnapshotConsistent ==
    (last.op = "getAll" /\ Answered(last) /\ ~last.raced) =>
        Len(Data(last)) =
            Min(Meta(last).limit, Max(0, Meta(last).total - SkipOf(last.arg)))

\* C9, for the limits that are within [1,100]: without a write between the
\* two reads the response holds min(limit, max(0, total - skip)) records ...
C9_InRangeConsistent ==
    (last.op = "getAll" /\ Answered(last) /\ ~last.raced /\ Meta(last).limit >= 1) =>
        Len(Data(last)) =
            Min(Meta(last).limit, Max(0, Meta(last).total - SkipOf(last.arg)))

\* ... and with one it can hold more records than `total`
C9_RaceReached ==
    /\ last.op = "getAll"
    /\ Answered(last)
    /\ last.raced
    /\ Meta(last).limit >= 1
    /\ Len(Data(last)) > Meta(last).total

\* b inverted n times
RECURSIVE InvertN(_, _)
InvertN(b, n) == IF n = 0 THEN b ELSE InvertN(~b, n - 1)

\* C10 as stated: once all toggleFlag calls on a record have answered 200, its
\* flag is the original inverted once per call, however the calls interleaved
C10_NoLostToggle ==
    \A id \in DOMAIN tg :
        Toggling(id) = {} => store[id].active = InvertN(tg[id].orig.active, tg[id].n)

\* C10, for calls that do not overlap: that holds when no call saved between another call's read
\* and save, that is when the calls ran one after another
C10_TogglesCountUnlessOverlapping ==
    \A id \in DOMAIN tg :
        (Toggling(id) = {} /\ ~tg[id].lost)
            => store[id].active = InvertN(tg[id].orig.active, tg[id].n)

C10_Witness ==
    \E id \in DOMAIN tg :
        /\ Toggling(id) = {}
        /\ ~tg[id].lost
        /\ tg[id].n = 3
        /\ store[id].active = ~tg[id].orig.active

====
